---- MODULE Spec2Model ----
(***************************************************************************)
(* A model of UniqueFileSelection.py: archive filenames are ordered by the *)
(* timestamp their names encode, every archive is read and parsed into a   *)
(* dict of per-company tables by a pool of workers, and one pass over the  *)
(* ordered results lists the archives equal to their predecessor.          *)
(*                                                                         *)
(* Strings are sequences of one-character strings, so that slicing,        *)
(* parsing and formatting are computed and not assumed.  A Python dict is  *)
(* a sequence of [key, value] records with distinct keys, in insertion     *)
(* order.                                                                  *)
(***************************************************************************)
EXTENDS Integers, Sequences, FiniteSets, TLC

VARIABLES
    pc,                   \* where the run (or the function under study) is
    arch_filenames,       \* os.listdir(ARCH_DIR), in the order the OS gave;
                          \* a local of generate_sorted_paths_to_archives,
                          \* empty once that has returned
    sort_out,             \* what _sort_filenames_by_date returned or raised
    fs,                   \* the directory: filename -> archive on disk
    cores,                \* CORES_TO_USE
    sorted_paths,         \* main: sorted_paths
    chunk_state,          \* Pool.map: per chunk "queued" | "running" | "done"
    map_value,            \* MapResult._value
    map_success,          \* MapResult._success
    number_left,          \* MapResult._number_left
    arrival,              \* the chunks in the order their results arrived
    html_dicts,           \* main: html_dicts
    scan_i,               \* main: entries of zip(...) the scan has consumed
    previous_html_dict,   \* main: previous_html_dict
    duplicate_arch_paths, \* main: duplicate_arch_paths
    output_file,          \* DUPLICATE_ARCH_PATHS_RESULT_FILE on disk
    archive,              \* the zip under study: its entries in listing order
    html_dict,            \* parse_html: the dict it iterates
    parse_i,              \* parse_html: items of html_dict consumed
    parse_html_contents   \* parse_html: parse_html_contents

sortVars == <<arch_filenames, sort_out>>
poolVars == <<chunk_state, map_value, map_success, number_left, arrival>>
scanVars == <<scan_i, previous_html_dict, duplicate_arch_paths, output_file>>
mainVars == <<fs, cores, sorted_paths, poolVars, html_dicts, scanVars>>
parseVars == <<archive, html_dict, parse_i, parse_html_contents>>
vars == <<pc, sortVars, mainVars, parseVars>>

\* ------------------------------------------------------------------ bounds

MaxSortLen == 3
MaxFiles == 3
MaxCores == 3
MaxEntries == 3

\* ----------------------------------------------------------------- strings

Digits == <<"0", "1", "2", "3", "4", "5", "6", "7", "8", "9">>
UpperCase == {"A", "B", "C", "D", "E", "F", "G", "H", "I", "J", "K", "L", "M",
              "N", "O", "P", "Q", "R", "S", "T", "U", "V", "W", "X", "Y", "Z"}
WhiteSpace == {" "}

IsDigit(c) == \E i \in 1..10 : Digits[i] = c
DigitVal(c) == (CHOOSE i \in 1..10 : Digits[i] = c) - 1

RECURSIVE StrToInt(_)
StrToInt(s) ==
    IF s = <<>> THEN 0
    ELSE 10 * StrToInt(SubSeq(s, 1, Len(s) - 1)) + DigitVal(s[Len(s)])

\* str.format of an int: decimal, no padding
RECURSIVE IntToStr(_)
IntToStr(n) ==
    IF n < 10 THEN <<Digits[n + 1]>>
    ELSE IntToStr(n \div 10) \o <<Digits[(n % 10) + 1]>>

\* s.split(sep) for a one-character sep
RECURSIVE Split(_, _)
Split(s, sep) ==
    IF \A i \in 1..Len(s) : s[i] # sep THEN <<s>>
    ELSE LET k == CHOOSE i \in 1..Len(s) :
                      s[i] = sep /\ \A j \in 1..(i - 1) : s[j] # sep
         IN <<SubSeq(s, 1, k - 1)>> \o Split(SubSeq(s, k + 1, Len(s)), sep)

\* arch_name[8:-4]
Slice8m4(s) == IF Len(s) - 4 < 9 THEN <<>> ELSE SubSeq(s, 9, Len(s) - 4)

\* --------------------------------------------------- _sort_filenames_by_date

IsLeap(y) == (y % 4 = 0 /\ y % 100 # 0) \/ y % 400 = 0
DaysInMonth(y, m) ==
    IF m = 2 THEN (IF IsLeap(y) THEN 29 ELSE 28)
    ELSE IF m \in {4, 6, 9, 11} THEN 30 ELSE 31

AllDigits(s, lens) == Len(s) \in lens /\ \A i \in 1..Len(s) : IsDigit(s[i])

\* arrow.get(text, 'D_M_YYYY_H_m'): the five number tokens the format names,
\* then the calendar check of the datetime they make.  NoDate when it raises.
NoDate == [ok |-> FALSE, key |-> <<>>]
ArrowGet(text) ==
    LET t == Split(text, "_") IN
    IF /\ Len(t) = 5
       /\ AllDigits(t[1], {1, 2}) /\ AllDigits(t[2], {1, 2})
       /\ AllDigits(t[3], {4})
       /\ AllDigits(t[4], {1, 2}) /\ AllDigits(t[5], {1, 2})
    THEN LET d == StrToInt(t[1])
             m == StrToInt(t[2])
             y == StrToInt(t[3])
             H == StrToInt(t[4])
             M == StrToInt(t[5])
         IN IF /\ y >= 1 /\ m \in 1..12 /\ d \in 1..DaysInMonth(y, m)
               /\ H \in 0..23 /\ M \in 0..59
            THEN [ok |-> TRUE, key |-> <<y, m, d, H, M>>]
            ELSE NoDate
    ELSE NoDate

\* date_obj < other: datetimes compare as (year, month, day, hour, minute)
DateLess(a, b) ==
    \E i \in 1..5 : a[i] < b[i] /\ \A j \in 1..(i - 1) : a[j] = b[j]

\* sorted(date_objects): a stable ascending sort
RECURSIVE InsertSorted(_, _)
InsertSorted(s, x) ==
    IF s = <<>> THEN <<x>>
    ELSE IF DateLess(x, s[Len(s)])
         THEN InsertSorted(SubSeq(s, 1, Len(s) - 1), x) \o <<s[Len(s)]>>
         ELSE s \o <<x>>

\* a variant that leaves the dates as listed
SortedDatesAsListed(s) == s

RECURSIVE SortedDates(_)
SortedDates(s) ==
    IF s = <<>> THEN <<>>
    ELSE InsertSorted(SortedDates(SubSeq(s, 1, Len(s) - 1)), s[Len(s)])

Archive_ == <<"a", "r", "c", "h", "i", "v", "e", "_">>
DotZip == <<".", "z", "i", "p">>

\* 'archive_{d}_{m}_{y}_{H}_{M}.zip'.format(...)
RecoverName(k) ==
    Archive_ \o IntToStr(k[3]) \o <<"_">> \o IntToStr(k[2]) \o <<"_">>
             \o IntToStr(k[1]) \o <<"_">> \o IntToStr(k[4]) \o <<"_">>
             \o IntToStr(k[5]) \o DotZip

DateObjects(names) == [i \in 1..Len(names) |-> ArrowGet(Slice8m4(names[i]))]

SortRaises(names) == \E i \in 1..Len(names) : ~DateObjects(names)[i].ok

\* the value returned when no arrow.get raises
sort_filenames_by_date(names) ==
    LET keys == [i \in 1..Len(names) |-> DateObjects(names)[i].key]
        srt == SortedDates(keys)
    IN [i \in 1..Len(srt) |-> RecoverName(srt[i])]

\* ------------------------------------------------------------ Python dicts

DictKeys(d) == {d[i].key : i \in 1..Len(d)}
DictGet(d, k) == d[CHOOSE i \in 1..Len(d) : d[i].key = k].value

\* d[k] = v: a new key goes last, a known key keeps its place
DictSet(d, k, v) ==
    IF k \in DictKeys(d)
    THEN [i \in 1..Len(d) |-> IF d[i].key = k THEN [key |-> k, value |-> v] ELSE d[i]]
    ELSE Append(d, [key |-> k, value |-> v])

\* a == b on two dicts: the same size, and every item of a is in b with an
\* equal value; insertion order plays no part
DictEq(a, b) ==
    /\ Len(a) = Len(b)
    /\ \A i \in 1..Len(a) :
           a[i].key \in DictKeys(b) /\ DictGet(b, a[i].key) = a[i].value

\* --------------------------------------------------- read_html_from_archive

\* zf.open(f_name): the zip's name table keeps the last entry of a name
ZipOpen(entries, f_name) ==
    entries[CHOOSE i \in 1..Len(entries) :
                /\ entries[i].name = f_name
                /\ \A j \in (i + 1)..Len(entries) : entries[j].name # f_name].content

RECURSIVE ReadLoop(_, _)
ReadLoop(entries, n) ==
    IF n = 0 THEN <<>>
    ELSE DictSet(ReadLoop(entries, n - 1), entries[n].name,
                 ZipOpen(entries, entries[n].name))

\* the dict returned for a readable zip with these entries
read_html_from_archive(entries) == ReadLoop(entries, Len(entries))

\* --------------------------------------------------------------- parse_html

\* td.text.strip()
RECURSIVE LStrip(_)
LStrip(s) == IF s # <<>> /\ s[1] \in WhiteSpace THEN LStrip(Tail(s)) ELSE s
RECURSIVE RStrip(_)
RStrip(s) ==
    IF s # <<>> /\ s[Len(s)] \in WhiteSpace
    THEN RStrip(SubSeq(s, 1, Len(s) - 1)) ELSE s
Strip(s) == RStrip(LStrip(s))

\* tr.find_all('td'), stripped
TdContents(tr) ==
    LET tds == SelectSeq(tr, LAMBDA cell : cell.tag = "td")
    IN [i \in 1..Len(tds) |-> Strip(tds[i].text)]

\* _parse_table(table)
parse_table(table) == [i \in 1..Len(table.rows) |-> TdContents(table.rows[i])]

\* re.match(r"([A-Z]{3})(.*)", key) is not None
MatchesPattern(key) == Len(key) >= 3 /\ \A i \in 1..3 : key[i] \in UpperCase
CompanyName(key) == SubSeq(key, 1, 3)

\* BeautifulSoup(value, "html.parser").find("table") is not None
HasTable(doc) == \E i \in 1..Len(doc) : doc[i].tag = "table"
FindTable(doc) ==
    doc[CHOOSE i \in 1..Len(doc) :
            doc[i].tag = "table" /\ \A j \in 1..(i - 1) : doc[j].tag # "table"]

\* the try body raises AttributeError
EntryRaises(item) == ~MatchesPattern(item.key) \/ ~HasTable(item.value)

\* a variant of the loop body that stores a table before it has found one
ParseStepStoreFirst(contents, item) ==
    IF ~MatchesPattern(item.key) THEN contents
    ELSE IF ~HasTable(item.value) THEN DictSet(contents, CompanyName(item.key), <<>>)
    ELSE DictSet(contents, CompanyName(item.key), parse_table(FindTable(item.value)))

\* a variant of the loop body that keeps the first table of a company
ParseStepFirstWins(contents, item) ==
    IF EntryRaises(item) \/ CompanyName(item.key) \in DictKeys(contents) THEN contents
    ELSE DictSet(contents, CompanyName(item.key), parse_table(FindTable(item.value)))

\* one turn of the for loop of parse_html on one item of html_dict
ParseStep(contents, item) ==
    IF EntryRaises(item) THEN contents
    ELSE DictSet(contents, CompanyName(item.key), parse_table(FindTable(item.value)))

RECURSIVE ParseLoop(_, _)
ParseLoop(hd, n) ==
    IF n = 0 THEN <<>> ELSE ParseStep(ParseLoop(hd, n - 1), hd[n])

parse_html(hd) == ParseLoop(hd, Len(hd))

\* get_html_dict for a readable zip
get_html_dict(entries) == parse_html(read_html_from_archive(entries))

\* ------------------------------------------------------------------ inputs

SeqsUpTo(S, n) == UNION {[1..k -> S] : k \in 0..n}

MkName(prefix, d, m, y, H, M, suffix) ==
    prefix \o d \o <<"_">> \o m \o <<"_">> \o y \o <<"_">> \o H \o <<"_">> \o M
           \o suffix

Y2020 == <<"2", "0", "2", "0">>
Y2019 == <<"2", "0", "1", "9">>
Xrchive_ == <<"x", "r", "c", "h", "i", "v", "e", "_">>
DotTar == <<".", "t", "a", "r">>
NotesTxt == <<"n", "o", "t", "e", "s", ".", "t", "x", "t">>

Name_1Jan == MkName(Archive_, <<"1">>, <<"1">>, Y2020, <<"0">>, <<"0">>, DotZip)
Name_2Jan == MkName(Archive_, <<"2">>, <<"1">>, Y2020, <<"0">>, <<"0">>, DotZip)
Name_3Jan == MkName(Archive_, <<"3">>, <<"1">>, Y2020, <<"0">>, <<"0">>, DotZip)
Name_10Jan == MkName(Archive_, <<"1", "0">>, <<"1">>, Y2020, <<"0">>, <<"0">>, DotZip)
Name_1Feb2019 ==
    MkName(Archive_, <<"1">>, <<"2">>, Y2019, <<"5">>, <<"3", "0">>, DotZip)
Name_1Jan0005 == MkName(Archive_, <<"1">>, <<"1">>, Y2020, <<"0">>, <<"5">>, DotZip)
\* zero-padded day: the same instant as Name_1Jan
Name_01Jan == MkName(Archive_, <<"0", "1">>, <<"1">>, Y2020, <<"0">>, <<"0">>, DotZip)
\* another prefix and extension, of the same lengths
Name_Other2Jan == MkName(Xrchive_, <<"2">>, <<"1">>, Y2020, <<"0">>, <<"0">>, DotTar)
\* no such day
Name_31Feb == MkName(Archive_, <<"3", "1">>, <<"2">>, Y2020, <<"0">>, <<"0">>, DotZip)

SortNames ==
    {Name_1Jan, Name_2Jan, Name_10Jan, Name_1Feb2019, Name_1Jan0005, Name_01Jan,
     Name_Other2Jan, Name_31Feb, NotesTxt}

\* html documents, as the element tree html.parser builds
Cell(tag, text) == [tag |-> tag, text |-> text]
Table(rows) == [tag |-> "table", rows |-> rows]
Para == [tag |-> "p", rows |-> <<>>]
RowHead == <<Cell("th", <<"h">>), Cell("th", <<"k">>)>>
Row1020 == <<Cell("td", <<" ", "1", "0", " ">>), Cell("td", <<"2", "0">>)>>
Row1020x == <<Cell("th", <<"r">>), Cell("td", <<"1", "0">>), Cell("td", <<"2", "0", " ">>)>>
Row3040 == <<Cell("td", <<"3", "0">>), Cell("td", <<"4", "0">>)>>
Row3140 == <<Cell("td", <<"3", "1">>), Cell("td", <<"4", "0">>)>>

DocA == <<Para, Table(<<RowHead, Row1020, Row3040>>), Table(<<Row3140>>)>>
DocA2 == <<Table(<<<<>>, Row1020x, Row3040>>)>>
DocB == <<Table(<<RowHead, Row1020, Row3140>>)>>
DocNoTable == <<Para>>

ABC_1 == <<"A", "B", "C", "_", "1">>
ABC_2 == <<"A", "B", "C", "_", "2">>
XYZ_1 == <<"X", "Y", "Z", "_", "1">>
abc_1 == <<"a", "b", "c", "_", "1">>

Entry(name, content) == [name |-> name, content |-> content]
EntryNames == {ABC_1, ABC_2, XYZ_1, abc_1}
EntryDocs == {DocA, DocB, DocNoTable}
Entries == {Entry(n, c) : n \in EntryNames, c \in EntryDocs}

\* ----------------------------------------------------- idle parts of a state

None == [isNone |-> TRUE, dict |-> <<>>]
Some(d) == [isNone |-> FALSE, dict |-> d]
Absent == [written |-> FALSE, paths |-> <<>>]
NoResult == [ok |-> FALSE, names |-> <<>>]

SortIdle == arch_filenames = <<>> /\ sort_out = NoResult
PoolIdle ==
    /\ chunk_state = <<>> /\ map_value = <<>> /\ map_success = TRUE
    /\ number_left = 0 /\ arrival = <<>>
ScanIdle ==
    /\ scan_i = 0 /\ previous_html_dict = None /\ duplicate_arch_paths = <<>>
    /\ output_file = Absent
MainIdle ==
    /\ fs = <<>> /\ cores = 1 /\ sorted_paths = <<>> /\ html_dicts = <<>>
    /\ PoolIdle /\ ScanIdle
ParseIdle ==
    /\ archive = <<>> /\ html_dict = <<>> /\ parse_i = 0
    /\ parse_html_contents = <<>>

\* ------------------------------------- _sort_filenames_by_date, on its own

SortInit ==
    /\ pc = "sort_call"
    /\ arch_filenames \in SeqsUpTo(SortNames, MaxSortLen)
    /\ sort_out = NoResult
    /\ MainIdle /\ ParseIdle

SortReturn ==
    /\ pc = "sort_call"
    /\ ~SortRaises(arch_filenames)
    /\ sort_out' = [ok |-> TRUE, names |-> sort_filenames_by_date(arch_filenames)]
    /\ pc' = "sort_done"
    /\ UNCHANGED <<arch_filenames, mainVars, parseVars>>

SortRaise ==
    /\ pc = "sort_call"
    /\ SortRaises(arch_filenames)
    /\ pc' = "sort_raised"
    /\ UNCHANGED <<sortVars, mainVars, parseVars>>

SortNext == SortReturn \/ SortRaise

SpecSort == SortInit /\ [][SortNext]_vars

\* ---------------------- read_html_from_archive and parse_html, on their own

ParseInit ==
    /\ pc = "read"
    /\ archive \in SeqsUpTo(Entries, MaxEntries)
    /\ html_dict = <<>> /\ parse_i = 0 /\ parse_html_contents = <<>>
    /\ SortIdle /\ MainIdle

ReadArchive ==
    /\ pc = "read"
    /\ html_dict' = read_html_from_archive(archive)
    /\ pc' = "parse_loop"
    /\ UNCHANGED <<archive, parse_i, parse_html_contents, sortVars, mainVars>>

ParseEntry ==
    /\ pc = "parse_loop"
    /\ parse_i < Len(html_dict)
    /\ ~EntryRaises(html_dict[parse_i + 1])
    /\ parse_html_contents' = ParseStep(parse_html_contents, html_dict[parse_i + 1])
    /\ parse_i' = parse_i + 1
    /\ UNCHANGED <<pc, archive, html_dict, sortVars, mainVars>>

ParseEntryExcept ==
    /\ pc = "parse_loop"
    /\ parse_i < Len(html_dict)
    /\ EntryRaises(html_dict[parse_i + 1])
    /\ parse_html_contents' = ParseStep(parse_html_contents, html_dict[parse_i + 1])
    /\ parse_i' = parse_i + 1
    /\ UNCHANGED <<pc, archive, html_dict, sortVars, mainVars>>

ParseReturn ==
    /\ pc = "parse_loop"
    /\ parse_i = Len(html_dict)
    /\ pc' = "parse_done"
    /\ UNCHANGED <<parseVars, sortVars, mainVars>>

ParseNext == ReadArchive \/ ParseEntry \/ ParseEntryExcept \/ ParseReturn

SpecParse == ParseInit /\ [][ParseNext]_vars

\* ------------------------------------------------------------------- main

\* an archive file on disk: a readable zip with its entries, or a corrupt one
Zip(entries) == [readable |-> TRUE, entries |-> entries]
Corrupt == [readable |-> FALSE, entries |-> <<>>]

ZipA == Zip(<<Entry(ABC_1, DocA), Entry(XYZ_1, DocB)>>)
\* the tables of ZipA from other entries, in another order
ZipA2 == Zip(<<Entry(XYZ_1, DocB), Entry(abc_1, DocB), Entry(ABC_2, DocA2)>>)
ZipB == Zip(<<Entry(ABC_1, DocB)>>)
\* no entry parses
ZipNone == Zip(<<Entry(abc_1, DocA), Entry(ABC_1, DocNoTable)>>)
Disks == {ZipA, ZipA2, ZipB, ZipNone, Corrupt}

MainNames == {Name_1Jan, Name_2Jan, Name_3Jan, Name_Other2Jan, NotesTxt}

Listings(S) ==
    {l \in [1..Cardinality(S) -> S] : \A i, j \in 1..Cardinality(S) : l[i] = l[j] => i = j}

\* os.path.join(arch_dir, f_name)
PathJoin(f_name) == [dir |-> "ARCH_DIR", name |-> f_name]

\* generate_sorted_paths_to_archives(ARCH_DIR), when the sorter returns
generate_sorted_paths_to_archives(names) ==
    LET srt == sort_filenames_by_date(names)
    IN [i \in 1..Len(srt) |-> PathJoin(srt[i])]

\* a variant of the unit of work that takes an unreadable archive for an
\* empty one
ReadOutcomeSwallow(path) ==
    IF path.name \notin DOMAIN fs \/ ~fs[path.name].readable
    THEN [raised |-> FALSE, dict |-> <<>>]
    ELSE [raised |-> FALSE, dict |-> get_html_dict(fs[path.name].entries)]

\* get_html_dict(path): ZipFile(path) raises on a missing or corrupt file,
\* and nothing catches it
ReadOutcome(path) ==
    IF path.name \notin DOMAIN fs \/ ~fs[path.name].readable
    THEN [raised |-> TRUE, dict |-> <<>>]
    ELSE [raised |-> FALSE, dict |-> get_html_dict(fs[path.name].entries)]

\* Pool.map: chunksize, extra = divmod(len(iterable), len(pool) * 4)
ChunkSize(n, procs) ==
    IF n = 0 THEN 0
    ELSE (n \div (procs * 4)) + (IF n % (procs * 4) # 0 THEN 1 ELSE 0)
NumChunks(n, procs) ==
    IF n = 0 THEN 0
    ELSE LET cs == ChunkSize(n, procs)
         IN (n \div cs) + (IF n % cs # 0 THEN 1 ELSE 0)
ChunkItems(c) ==
    LET cs == ChunkSize(Len(sorted_paths), cores)
    IN {i \in 1..Len(sorted_paths) : (c - 1) * cs < i /\ i <= c * cs}
ChunkRaises(c) == \E i \in ChunkItems(c) : ReadOutcome(sorted_paths[i]).raised

\* a variant that stores a chunk's results in the first free slots
SetSliceFirstFree(value, c) ==
    LET free == {k \in 1..Len(value) : value[k].isNone}
        rank(k) == Cardinality({j \in free : j <= k})
        items == ChunkItems(c)
        nth(r) == CHOOSE i \in items : Cardinality({j \in items : j <= i}) = r
    IN [k \in 1..Len(value) |->
            IF k \in free /\ rank(k) <= Cardinality(items)
            THEN Some(ReadOutcome(sorted_paths[nth(rank(k))]).dict)
            ELSE value[k]]

\* MapResult._set: self._value[i*chunksize:(i+1)*chunksize] = result
SetSlice(value, c) ==
    [k \in 1..Len(value) |->
        IF k \in ChunkItems(c) THEN Some(ReadOutcome(sorted_paths[k]).dict)
        ELSE value[k]]

\* a variant that hands the results over once any chunk has arrived
MapReadyEarly == number_left = 0 \/ arrival # <<>>

\* MapResult: the event is set when no chunk is left
MapReady == number_left = 0

\* a variant that starts the scan from an empty dict
InitialPreviousEmptyDict == Some(<<>>)

\* previous_html_dict = None
InitialPrevious == None

\* a variant that compares two dicts item by item in insertion order
PyEqOrdered(a, b) == a = b

\* html_dict == previous_html_dict
PyEq(a, b) ==
    IF a.isNone \/ b.isNone THEN a.isNone /\ b.isNone ELSE DictEq(a.dict, b.dict)

Init ==
    /\ pc = "start"
    /\ \E S \in SUBSET MainNames :
           /\ Cardinality(S) <= MaxFiles
           /\ fs \in [S -> Disks]
           /\ arch_filenames \in Listings(S)
    /\ cores \in 1..MaxCores
    /\ sort_out = NoResult
    /\ sorted_paths = <<>> /\ html_dicts = <<>>
    /\ PoolIdle /\ ScanIdle /\ ParseIdle

\* line 128
GenerateSortedPaths ==
    /\ pc = "start"
    /\ ~SortRaises(arch_filenames)
    /\ sorted_paths' = generate_sorted_paths_to_archives(arch_filenames)
    /\ arch_filenames' = <<>>
    /\ pc' = "pool"
    /\ UNCHANGED <<sort_out, fs, cores, poolVars, html_dicts, scanVars, parseVars>>

GenerateSortedPathsRaise ==
    /\ pc = "start"
    /\ SortRaises(arch_filenames)
    /\ pc' = "aborted"
    /\ UNCHANGED <<sortVars, mainVars, parseVars>>

\* line 131: p.map submits the chunks
PoolMap ==
    /\ pc = "pool"
    /\ chunk_state' = [c \in 1..NumChunks(Len(sorted_paths), cores) |-> "queued"]
    /\ map_value' = [i \in 1..Len(sorted_paths) |-> None]
    /\ map_success' = TRUE
    /\ number_left' = NumChunks(Len(sorted_paths), cores)
    /\ arrival' = <<>>
    /\ pc' = "mapping"
    /\ UNCHANGED <<sortVars, fs, cores, sorted_paths, html_dicts, scanVars, parseVars>>

\* an idle worker takes the next chunk of the task queue
WorkerTake ==
    /\ pc = "mapping"
    /\ Cardinality({c \in 1..Len(chunk_state) : chunk_state[c] = "running"}) < cores
    /\ \E c \in 1..Len(chunk_state) :
           /\ chunk_state[c] = "queued"
           /\ \A b \in 1..(c - 1) : chunk_state[b] # "queued"
           /\ chunk_state' = [chunk_state EXCEPT ![c] = "running"]
    /\ UNCHANGED <<pc, sortVars, fs, cores, sorted_paths, map_value, map_success,
                   number_left, arrival, html_dicts, scanVars, parseVars>>

\* a worker finishes its chunk and the result reaches MapResult._set
WorkerReturn ==
    /\ pc = "mapping"
    /\ \E c \in 1..Len(chunk_state) :
           /\ chunk_state[c] = "running"
           /\ ~ChunkRaises(c)
           /\ chunk_state' = [chunk_state EXCEPT ![c] = "done"]
           /\ map_value' = IF map_success THEN SetSlice(map_value, c) ELSE map_value
           /\ arrival' = Append(arrival, c)
    /\ number_left' = number_left - 1
    /\ UNCHANGED <<pc, sortVars, fs, cores, sorted_paths, map_success, html_dicts,
                   scanVars, parseVars>>

\* a unit of work of the chunk raises: _set keeps the first exception
WorkerRaise ==
    /\ pc = "mapping"
    /\ \E c \in 1..Len(chunk_state) :
           /\ chunk_state[c] = "running"
           /\ ChunkRaises(c)
           /\ chunk_state' = [chunk_state EXCEPT ![c] = "done"]
           /\ map_value' = IF map_success THEN [raised |-> c] ELSE map_value
           /\ arrival' = Append(arrival, c)
    /\ map_success' = FALSE
    /\ number_left' = number_left - 1
    /\ UNCHANGED <<pc, sortVars, fs, cores, sorted_paths, html_dicts, scanVars,
                   parseVars>>

\* lines 131-134: p.map returns the list, the scan is set up
MapReturn ==
    /\ pc = "mapping"
    /\ MapReady /\ map_success
    /\ html_dicts' = map_value
    /\ duplicate_arch_paths' = <<>>
    /\ previous_html_dict' = InitialPrevious
    /\ scan_i' = 0
    /\ pc' = "scan"
    /\ UNCHANGED <<sortVars, fs, cores, sorted_paths, poolVars, output_file, parseVars>>

\* line 131: p.map raises the stored exception, main ends
MapRaise ==
    /\ pc = "mapping"
    /\ MapReady /\ ~map_success
    /\ pc' = "aborted"
    /\ UNCHANGED <<sortVars, mainVars, parseVars>>

ZipLen == IF Len(sorted_paths) < Len(html_dicts) THEN Len(sorted_paths) ELSE Len(html_dicts)

\* lines 135-139: one turn of the scan
ScanStep ==
    /\ pc = "scan"
    /\ scan_i < ZipLen
    /\ duplicate_arch_paths' =
           IF PyEq(html_dicts[scan_i + 1], previous_html_dict)
           THEN Append(duplicate_arch_paths, sorted_paths[scan_i + 1])
           ELSE duplicate_arch_paths
    /\ previous_html_dict' = html_dicts[scan_i + 1]
    /\ scan_i' = scan_i + 1
    /\ UNCHANGED <<pc, sortVars, fs, cores, sorted_paths, poolVars, html_dicts,
                   output_file, parseVars>>

\* lines 141-142
WriteResult ==
    /\ pc = "scan"
    /\ scan_i = ZipLen
    /\ output_file' = [written |-> TRUE, paths |-> duplicate_arch_paths]
    /\ pc' = "done"
    /\ UNCHANGED <<sortVars, fs, cores, sorted_paths, poolVars, html_dicts, scan_i,
                   previous_html_dict, duplicate_arch_paths, parseVars>>

Next ==
    \/ GenerateSortedPaths \/ GenerateSortedPathsRaise
    \/ PoolMap \/ WorkerTake \/ WorkerReturn \/ WorkerRaise
    \/ MapReturn \/ MapRaise
    \/ ScanStep \/ WriteResult

Spec == Init /\ [][Next]_vars

\* ------------------------------------------- claims on the filename sorter

DateKey(name) == ArrowGet(Slice8m4(name)).key

\* archive_{day}_{month}_{year}_{hour}_{minute}.zip
Conforms(name) ==
    /\ Len(name) >= 12
    /\ SubSeq(name, 1, 8) = Archive_
    /\ SubSeq(name, Len(name) - 3, Len(name)) = DotZip
    /\ ArrowGet(Slice8m4(name)).ok

\* C5: for filenames that all parse, _sort_filenames_by_date returns exactly
\* the input filenames, each once and unaltered, in ascending order of
\* (year, month, day, hour, minute), equal timestamps in input order.
C5_SortReturnsTheInputNames ==
    pc = "sort_done" =>
        LET n == Len(arch_filenames)
            out == sort_out.names
        IN /\ Len(out) = n
           /\ \E p \in Permutations(1..n) :
                  /\ \A i \in 1..n : out[i] = arch_filenames[p[i]]
                  /\ \A i, j \in 1..n :
                         i < j =>
                             /\ ~DateLess(DateKey(arch_filenames[p[j]]),
                                          DateKey(arch_filenames[p[i]]))
                             /\ (DateKey(arch_filenames[p[i]])
                                     = DateKey(arch_filenames[p[j]]) => p[i] < p[j])

Permuted(s, p) == [i \in 1..Len(s) |-> s[p[i]]]

\* C6: whatever order the directory listing gives the same filenames in,
\* _sort_filenames_by_date returns the same sequence.
C6_SortIgnoresListingOrder ==
    pc = "sort_done" =>
        \A p \in Permutations(1..Len(arch_filenames)) :
            /\ ~SortRaises(Permuted(arch_filenames, p))
            /\ sort_filenames_by_date(Permuted(arch_filenames, p)) = sort_out.names

\* a listing of three files that is not in date order, sorted
C6_Witness ==
    /\ pc = "sort_done"
    /\ Len(arch_filenames) = 3
    /\ DateLess(DateKey(arch_filenames[3]), DateKey(arch_filenames[1]))
    /\ DateLess(DateKey(arch_filenames[1]), DateKey(arch_filenames[2]))
    /\ sort_out.names = <<arch_filenames[3], arch_filenames[1], arch_filenames[2]>>

\* ----------------------------------------------------- claims on parse_html

Done(i) == i \in 1..parse_i
Kept(i) == Done(i) /\ ~EntryRaises(html_dict[i])
CodeOf(i) == CompanyName(html_dict[i].key)
TableOf(i) == parse_table(FindTable(html_dict[i].value))
InLoop == pc \in {"parse_loop", "parse_done"}

\* C9: an entry whose name has no three-capital prefix, or whose content has
\* no table, is skipped: the dict holds exactly the codes of the entries that
\* did not fail, each with the table of such an entry, it is the dict the
\* loop builds from the entries that did not fail alone, and the loop runs
\* to the last entry.
C9_FailingEntriesAreSkipped ==
    InLoop =>
        /\ DictKeys(parse_html_contents) = {CodeOf(i) : i \in {j \in 1..parse_i : Kept(j)}}
        /\ \A k \in 1..Len(parse_html_contents) :
               \E i \in 1..parse_i :
                   /\ Kept(i) /\ CodeOf(i) = parse_html_contents[k].key
                   /\ TableOf(i) = parse_html_contents[k].value
        /\ parse_html_contents
               = parse_html(SelectSeq(SubSeq(html_dict, 1, parse_i),
                                      LAMBDA item : ~EntryRaises(item)))
        /\ (pc = "parse_done" => parse_i = Len(html_dict))

\* an entry with a known code and no table, between two entries that parse
C9_Witness ==
    /\ pc = "parse_done"
    /\ \E h, i, j \in 1..Len(html_dict) :
           /\ h < i /\ i < j
           /\ Kept(h) /\ Kept(j)
           /\ MatchesPattern(html_dict[i].key) /\ ~HasTable(html_dict[i].value)
           /\ CodeOf(i) = CodeOf(h)
           /\ CodeOf(j) # CodeOf(h)

\* C10: of the entries of one company code (that yield a table), the last
\* in processing order gives the table kept under the code, and a code is a
\* key once.
C10_LastEntryOfACodeWins ==
    InLoop =>
        /\ \A k \in 1..Len(parse_html_contents) :
               \E i \in 1..parse_i :
                   /\ Kept(i) /\ CodeOf(i) = parse_html_contents[k].key
                   /\ \A j \in (i + 1)..parse_i :
                          Kept(j) => CodeOf(j) # CodeOf(i)
                   /\ parse_html_contents[k].value = TableOf(i)
        /\ \A k, l \in 1..Len(parse_html_contents) :
               parse_html_contents[k].key = parse_html_contents[l].key => k = l
        /\ Len(parse_html_contents)
               = Cardinality({CodeOf(i) : i \in {j \in 1..parse_i : Kept(j)}})

\* two entries of one code with different tables, and another code
C10_Witness ==
    /\ pc = "parse_done"
    /\ Len(parse_html_contents) = 2
    /\ \E i, j \in 1..Len(html_dict) :
           /\ i < j /\ Kept(i) /\ Kept(j)
           /\ CodeOf(i) = CodeOf(j)
           /\ TableOf(i) # TableOf(j)

\* --------------------------------------------------------- claims on main

Scanning == pc \in {"scan", "done"}

\* structural equality of two SnapshotSets: the same company codes and,
\* for each code, the same rows of the same cells in the same order
SameSnapshot(a, b) ==
    /\ DictKeys(a.dict) = DictKeys(b.dict)
    /\ \A k \in DictKeys(a.dict) : DictGet(a.dict, k) = DictGet(b.dict, k)

\* the entries among the first n that equal their immediate predecessor
Flagged(n) == {i \in 2..n : SameSnapshot(html_dicts[i], html_dicts[i - 1])}
NthFlagged(n, k) ==
    CHOOSE i \in Flagged(n) : Cardinality({j \in Flagged(n) : j <= i}) = k
ReportOf(n) == [k \in 1..Cardinality(Flagged(n)) |-> sorted_paths[NthFlagged(n, k)]]

\* C1: after the scan has consumed n entries, the report is the paths of
\* exactly the entries i in 2..n whose SnapshotSet equals that of entry
\* i - 1, flagged or not, in order; the file written is that report.
C1_ReportIsEntriesEqualToPredecessor ==
    Scanning =>
        /\ duplicate_arch_paths = ReportOf(scan_i)
        /\ (pc = "done" =>
                /\ scan_i = Len(sorted_paths)
                /\ output_file = [written |-> TRUE, paths |-> ReportOf(Len(sorted_paths))])

\* three equal snapshots in a row, built in different insertion orders:
\* the second and the third are reported
C1_Witness ==
    /\ pc = "done"
    /\ Len(sorted_paths) = 3
    /\ html_dicts[1] # html_dicts[2]
    /\ SameSnapshot(html_dicts[1], html_dicts[2])
    /\ SameSnapshot(html_dicts[2], html_dicts[3])
    /\ output_file.paths = <<sorted_paths[2], sorted_paths[3]>>

Range(s) == {s[i] : i \in 1..Len(s)}

\* C2: the first entry of the scan is never reported: consuming it leaves
\* the report empty, the report never holds more than n - 1 paths after n
\* entries, and the first path is not in it unless a later entry has the
\* same path.
C2_FirstArchiveNeverReported ==
    (Scanning /\ scan_i >= 1) =>
        /\ Len(duplicate_arch_paths) <= scan_i - 1
        /\ (scan_i = 1 => duplicate_arch_paths = <<>>)
        /\ ((\A j \in 2..Len(sorted_paths) : sorted_paths[j] # sorted_paths[1])
                => sorted_paths[1] \notin Range(duplicate_arch_paths) \cup Range(output_file.paths))

\* the first archive parses to the empty SnapshotSet and the scan is over
C2_Witness ==
    /\ pc = "done"
    /\ Len(sorted_paths) >= 2
    /\ html_dicts[1] = Some(<<>>)
    /\ html_dicts[2] = Some(<<>>)
    /\ output_file.paths # <<>>

\* C7: a filename of the directory that is not
\* archive_{day}_{month}_{year}_{hour}_{minute}.zip makes the sorter raise:
\* the run ends there, with no sorted list, no archive parsed and no file
\* written.
C7_NonConformingNameAborts ==
    (\E name \in DOMAIN fs : ~Conforms(name))
        => /\ pc \in {"start", "aborted"}
           /\ sorted_paths = <<>>
           /\ arrival = <<>>
           /\ output_file = Absent

\* what reading and parsing the archive at a path gives
Unreadable(path) == path.name \notin DOMAIN fs \/ ~fs[path.name].readable
ParsedDisk == [d \in Disks |-> parse_html(read_html_from_archive(d.entries))]
SnapshotAt(path) == Some(ParsedDisk[fs[path.name]])

\* C3: whatever order the chunks finish in, a filled slot i of the result
\* holds the SnapshotSet of sorted_paths[i], and the list handed to main has
\* one result per path.
C3_ResultsFollowSortedPaths ==
    /\ (pc = "mapping" /\ map_success) =>
           /\ Len(map_value) = Len(sorted_paths)
           /\ \A i \in 1..Len(sorted_paths) :
                  IF \E c \in 1..Len(chunk_state) :
                         i \in ChunkItems(c) /\ chunk_state[c] = "done"
                  THEN map_value[i] = SnapshotAt(sorted_paths[i])
                  ELSE map_value[i] = None
    /\ Scanning =>
           /\ Len(html_dicts) = Len(sorted_paths)
           /\ \A i \in 1..Len(sorted_paths) :
                  ~Unreadable(sorted_paths[i]) /\ html_dicts[i] = SnapshotAt(sorted_paths[i])

\* the last chunk arrived first, and the results differ
C3_Witness ==
    /\ pc = "scan"
    /\ Len(sorted_paths) = 3
    /\ arrival = <<3, 1, 2>>
    /\ ~SameSnapshot(html_dicts[1], html_dicts[3])
    /\ ~SameSnapshot(html_dicts[1], html_dicts[2])

\* the run with one worker, computed from the sorted paths and the files alone
RECURSIVE SequentialReport(_, _)
SequentialReport(paths, n) ==
    IF n = 0 THEN <<>>
    ELSE IF n >= 2 /\ SameSnapshot(SnapshotAt(paths[n]), SnapshotAt(paths[n - 1]))
         THEN Append(SequentialReport(paths, n - 1), paths[n])
         ELSE SequentialReport(paths, n - 1)
ExpectedAbort ==
    \/ SortRaises(arch_filenames)
    \/ \E i \in 1..Len(sorted_paths) : Unreadable(sorted_paths[i])

\* C4: the result sequence, the report and whether the run aborts are
\* functions of the sorted paths and the files: no pool size and no
\* schedule changes them.
C4_OutcomeIndependentOfPool ==
    /\ pc = "done" =>
           /\ ~ExpectedAbort
           /\ html_dicts = [i \in 1..Len(sorted_paths) |-> SnapshotAt(sorted_paths[i])]
           /\ output_file =
                  [written |-> TRUE,
                   paths |-> SequentialReport(sorted_paths, Len(sorted_paths))]
    /\ pc = "aborted" => ExpectedAbort /\ output_file = Absent
    /\ (pc = "scan" => ~ExpectedAbort)

\* several workers, chunks finished out of order, a report that is not empty
C4_Witness ==
    /\ pc = "done"
    /\ cores > 1
    /\ Len(arrival) = 3
    /\ arrival[1] > arrival[2]
    /\ output_file.paths # <<>>

\* C8: when an archive of the sorted list is missing or corrupt, the run
\* never reaches the scan and never writes the file: the results are not
\* handed over, the report stays untouched, and once every chunk is in, the
\* failure is on record, so that p.map can only raise.
C8_ArchiveFailureAborts ==
    (pc \notin {"start", "pool"}
       /\ \E i \in 1..Len(sorted_paths) : Unreadable(sorted_paths[i]))
        => /\ pc \in {"mapping", "aborted"}
           /\ html_dicts = <<>>
           /\ scan_i = 0 /\ duplicate_arch_paths = <<>>
           /\ output_file = Absent
           /\ (number_left = 0 => ~map_success)

\* the one corrupt archive is the last to arrive, after two equal snapshots
C8_Witness ==
    /\ pc = "aborted"
    /\ Len(sorted_paths) = 3
    /\ Len(arrival) = 3
    /\ Unreadable(sorted_paths[arrival[3]])
    /\ ~Unreadable(sorted_paths[arrival[1]])
    /\ ~Unreadable(sorted_paths[arrival[2]])
    /\ SameSnapshot(SnapshotAt(sorted_paths[arrival[1]]),
                    SnapshotAt(sorted_paths[arrival[2]]))

====
